---- MODULE Spec2Model ----
(***************************************************************************)
(* Model of the summarization pipeline of backend/app/services/summarizer.py *)
(* (SummarizerService): the splitter (_split_into_chunks and               *)
(* _find_split_position), the orchestrator (summarize_transcript,           *)
(* _summarize_short, _summarize_long, _call_api) and the response parser    *)
(* (_parse_summary_response), and of the endpoint POST /api/summarize      *)
(* around it (routers/summarize.py, services/youtube.py, main.py).          *)
(*                                                                         *)
(* Text is a sequence of characters.  A character is a one-word string:    *)
(*   "x"      any character that is neither whitespace nor a delimiter     *)
(*   "kuten"  the full-width period  (U+3002)                               *)
(*   "touten" the full-width comma   (U+3001)                               *)
(*   "dot"    the ASCII period                                              *)
(*   "sp"     the ASCII space                                               *)
(*   "nl"     the newline                                                   *)
(*   "[", "]" and the digits stand for themselves.                          *)
(* Positions are Python positions (0-based); Slice(t, a, b) is t[a:b].      *)
(***************************************************************************)
EXTENDS Integers, Sequences, FiniteSets, TLC

VARIABLES
    chunk_size,         \* self.chunk_size
    chunk_overlap,      \* self.chunk_overlap
    transcript,         \* the argument of summarize_transcript
    text,               \* the text the splitter works on (the trimmed transcript)
    start,              \* _split_into_chunks: the cursor
    chunks,             \* _split_into_chunks: the local list of chunk strings
    spans,              \* history: <<start, end>> offsets of each string of chunks
    infos,              \* the list of ChunkInfo that _split_into_chunks returns
    pc,                 \* where the invocation is
    idx,                \* _summarize_long: number of chunks the for loop has taken
    calls,              \* history: the completion calls issued, in order
    inflight,           \* the completion calls issued and not yet resolved
    partial_summaries,  \* _summarize_long: partial_summaries
    raw,                \* the raw completion text handed to the parser
    chunk_count,        \* the chunk_count handed to the parser
    result,             \* what the parser returned or raised
    error,              \* the exception the invocation ended with, "" if none
    language,           \* summarize_video: request.language
    lookups,            \* history: the lookups fetch_transcript made, in order
    yt_transcript,      \* fetch_transcript: the local transcript it settled on
    segments,           \* TranscriptResult.segments
    video_title,        \* summarize_video: video_title
    response            \* the HTTP response of the request

vars == <<chunk_size, chunk_overlap, transcript, text, start, chunks, spans,
          infos, pc, idx, calls, inflight, partial_summaries, raw,
          chunk_count, result, error, language, lookups, yt_transcript, segments,
          video_title, response>>

\* The state of the endpoint around the pipeline.
request_vars == <<language, lookups, yt_transcript, segments, video_title, response>>

\* No request is being served: the service is called directly.
NoResponse == [status |-> 0, error_code |-> ""]
NoTranscript == [source |-> "none", language |-> ""]
NoRequest ==
    /\ language = ""
    /\ lookups = <<>>
    /\ yt_transcript = NoTranscript
    /\ segments = <<>>
    /\ video_title = <<>>
    /\ response = NoResponse

Max(a, b) == IF a >= b THEN a ELSE b
Min(a, b) == IF a <= b THEN a ELSE b

\* Python t[a:b] for 0 <= a, 0 <= b (b is clamped to len(t)).
Slice(t, a, b) == SubSeq(t, a + 1, Min(b, Len(t)))

\* Python t[a:].
SliceFrom(t, a) == SubSeq(t, a + 1, Len(t))

RECURSIVE Repeat(_, _)
Repeat(c, n) == IF n <= 0 THEN <<>> ELSE <<c>> \o Repeat(c, n - 1)

RECURSIVE Concat(_)
Concat(ss) == IF ss = <<>> THEN <<>> ELSE Head(ss) \o Concat(Tail(ss))

\* All sequences over S of length 0..n.
SeqsUpTo(S, n) == UNION {[1..k -> S] : k \in 0..n}

-----------------------------------------------------------------------------
(* The splitter *)

\* The delimiters of _find_split_position, in the order the loop tries them.
Delimiters ==
    << <<"kuten">>, <<"nl", "nl">>, <<"nl">>, <<"touten">>, <<"dot">>, <<"sp">> >>

\* Python seg.rfind(d): the highest position where d occurs in seg, or -1.
RFind(seg, d) ==
    LET hits == {p \in 0..(Len(seg) - Len(d)) : SubSeq(seg, p + 1, p + Len(d)) = d}
    IN  IF hits = {} THEN -1 ELSE CHOOSE p \in hits : \A q \in hits : q <= p

\* A cut one character past the delimiter found.
FindSplitPositionPastEnd(t, s, e) ==
    LET search_start == Max(s, e - ((e - s) \div 5))
        segment == Slice(t, search_start, e)
        found == {i \in 1..Len(Delimiters) : RFind(segment, Delimiters[i]) # -1}
    IN  IF found = {} THEN e + 1
        ELSE LET i == CHOOSE j \in found : \A k \in found : j <= k
             IN  search_start + RFind(segment, Delimiters[i]) + Len(Delimiters[i]) + 1

\* A cut after the delimiter that lies furthest right, whatever its kind.
FindSplitPositionRightmost(t, s, e) ==
    LET search_start == Max(s, e - ((e - s) \div 5))
        segment == Slice(t, search_start, e)
        found == {i \in 1..Len(Delimiters) : RFind(segment, Delimiters[i]) # -1}
    IN  IF found = {} THEN e
        ELSE LET i == CHOOSE j \in found : \A k \in found :
                          RFind(segment, Delimiters[j]) >= RFind(segment, Delimiters[k])
             IN  search_start + RFind(segment, Delimiters[i]) + Len(Delimiters[i])

\* _find_split_position(text, start, end)
FindSplitPosition(t, s, e) ==
    LET search_start == Max(s, e - ((e - s) \div 5))
        segment == Slice(t, search_start, e)
        found == {i \in 1..Len(Delimiters) : RFind(segment, Delimiters[i]) # -1}
    IN  IF found = {} THEN e
        ELSE LET i == CHOOSE j \in found : \A k \in found : j <= k
             IN  search_start + RFind(segment, Delimiters[i]) + Len(Delimiters[i])

\* text[start:] of the final iteration.
TailChunk(t, s) == SliceFrom(t, s)

\* The next cursor without the overlap.
NextStartNoOverlap(split_pos, overlap) == split_pos

\* start = split_pos - self.chunk_overlap; if start < 0: start = 0
NextStart(split_pos, overlap) ==
    IF split_pos - overlap < 0 THEN 0 ELSE split_pos - overlap

\* The list comprehension that numbers the chunks.
ChunkInfos(cs) ==
    [i \in 1..Len(cs) |-> [text |-> cs[i], part_number |-> i, total_parts |-> Len(cs)]]

\* The while loop of _split_into_chunks from cursor s on, as a function: the
\* chunk strings it appends.  The loop is cut after fuel iterations (a loop
\* that ends takes at most len(text) of them, each at another cursor).
RECURSIVE SplitLoop(_, _, _, _, _)
SplitLoop(t, cs, ov, s, fuel) ==
    IF s >= Len(t) \/ fuel = 0 THEN <<>>
    ELSE IF s + cs >= Len(t) THEN <<TailChunk(t, s)>>
    ELSE LET split_pos == FindSplitPosition(t, s, s + cs)
         IN  <<Slice(t, s, split_pos)>>
             \o SplitLoop(t, cs, ov, NextStart(split_pos, ov), fuel - 1)

\* _split_into_chunks(text) as a function of the text and the configuration.
SplitIntoChunks(t, cs, ov) ==
    IF Len(t) <= cs
    THEN <<[text |-> t, part_number |-> 1, total_parts |-> 1]>>
    ELSE ChunkInfos(SplitLoop(t, cs, ov, 0, Len(t) + 1))

\* len(text) <= self.chunk_size: one chunk holding the whole text.
SplitWhole ==
    /\ pc = "split"
    /\ chunks = <<>>
    /\ Len(text) <= chunk_size
    /\ infos' = <<[text |-> text, part_number |-> 1, total_parts |-> 1]>>
    /\ pc' = "split_done"
    /\ UNCHANGED <<chunk_size, chunk_overlap, transcript, text, start, chunks,
                   spans, idx, calls, inflight, partial_summaries, raw,
                   chunk_count, result, error>>
    /\ UNCHANGED request_vars

\* One iteration of the while loop that carves a chunk and moves the cursor.
SplitStep ==
    /\ pc = "split"
    /\ Len(text) > chunk_size
    /\ start < Len(text)
    /\ start + chunk_size < Len(text)
    /\ Len(chunks) <= Len(text)      \* a run that ends never repeats a cursor
    /\ LET end == start + chunk_size
           split_pos == FindSplitPosition(text, start, end)
       IN  /\ chunks' = Append(chunks, Slice(text, start, split_pos))
           /\ spans' = Append(spans, <<start, Min(split_pos, Len(text))>>)
           /\ start' = NextStart(split_pos, chunk_overlap)
    /\ UNCHANGED <<chunk_size, chunk_overlap, transcript, text, infos, pc, idx,
                   calls, inflight, partial_summaries, raw, chunk_count,
                   result, error>>
    /\ UNCHANGED request_vars

\* The end of the while loop: the iteration whose window reaches the end of the
\* text appends the tail and breaks (or the loop condition fails), then the
\* chunks are numbered and returned.
SplitFinish ==
    /\ pc = "split"
    /\ Len(text) > chunk_size
    /\ start >= Len(text) \/ start + chunk_size >= Len(text)
    /\ LET tail == TailChunk(text, start)
           all == IF start < Len(text) THEN Append(chunks, tail) ELSE chunks
       IN  /\ chunks' = all
           /\ spans' = IF start < Len(text)
                          THEN Append(spans, <<start, start + Len(tail)>>)
                          ELSE spans
           /\ infos' = ChunkInfos(all)
    /\ pc' = "split_done"
    /\ UNCHANGED <<chunk_size, chunk_overlap, transcript, text, start, idx,
                   calls, inflight, partial_summaries, raw, chunk_count,
                   result, error>>
    /\ UNCHANGED request_vars

-----------------------------------------------------------------------------
(* The response parser *)

(* A completion text is a sequence of runs [k, n, v]: n characters of kind k.
     "sp"    n spaces                       "nl"    one newline
     "fence" n >= 3 characters that start with three backticks and hold no
             whitespace (the fence and its language tag)
     "json"  a whole JSON text without a newline, of the document Docs[v]
     "jhead", "jtail"  the first and the last lines of the JSON text of
             Docs[v] written on two lines
     "junk"  n characters that are not whitespace, do not start with three
             backticks and are no JSON text or part of one
     "deep"  n opening brackets, more than the interpreter's recursion limit:
             no JSON text, and the decoder gives up on it with RecursionError
             on its way down, before it finds the text malformed.
   A Python value is [t, i, s]: its type, its number, its characters.  A float
   carries its value in tenths. *)

Run(k, n, v) == [k |-> k, n |-> n, v |-> v]

PyNone == [t |-> "none", i |-> 0, s |-> <<>>]
PyInt(i) == [t |-> "int", i |-> i, s |-> <<>>]
PyBool(b) == [t |-> "bool", i |-> IF b THEN 1 ELSE 0, s |-> <<>>]
PyFloat(tenths) == [t |-> "float", i |-> tenths, s |-> <<>>]
PyNaN == [t |-> "nan", i |-> 0, s |-> <<>>]
PyStr(s) == [t |-> "str", i |-> 0, s |-> s]
PyList == [t |-> "list", i |-> 0, s |-> <<"[", "]">>]
\* dict.get(key) of a key the dict does not hold, before the default is applied.
Missing == [t |-> "missing", i |-> 0, s |-> <<>>]

\* dict.get(key, default)
Get(v, default) == IF v.t = "missing" THEN default ELSE v

IsSpace(r) == r.k \in {"sp", "nl"}

RECURSIVE LStrip(_)
LStrip(rs) == IF rs # <<>> /\ IsSpace(Head(rs)) THEN LStrip(Tail(rs)) ELSE rs

RECURSIVE RStrip(_)
RStrip(rs) ==
    IF rs # <<>> /\ IsSpace(rs[Len(rs)]) THEN RStrip(SubSeq(rs, 1, Len(rs) - 1)) ELSE rs

\* str.strip()
Strip(rs) == RStrip(LStrip(rs))

\* s.startswith("```")
StartsWithFence(rs) == rs # <<>> /\ Head(rs).k = "fence" /\ Head(rs).n >= 3

\* s.split("\n")
RECURSIVE SplitLines(_)
SplitLines(rs) ==
    LET nls == {i \in 1..Len(rs) : rs[i].k = "nl"}
    IN  IF nls = {} THEN <<rs>>
        ELSE LET i == CHOOSE j \in nls : \A k \in nls : j <= k
             IN  <<SubSeq(rs, 1, i - 1)>> \o SplitLines(SubSeq(rs, i + 1, Len(rs)))

\* "\n".join(lines)
RECURSIVE JoinLines(_)
JoinLines(lines) ==
    IF lines = <<>> THEN <<>>
    ELSE IF Len(lines) = 1 THEN lines[1]
    ELSE lines[1] \o <<Run("nl", 1, 0)>> \o JoinLines(Tail(lines))

\* not l.strip().startswith("```")
KeepLine(l) == ~StartsWithFence(Strip(l))

\* if text.startswith("```"): drop the first line and every fence line.
StripFence(t) ==
    IF StartsWithFence(t)
    THEN JoinLines(SelectSeq(Tail(SplitLines(t)), KeepLine))
    ELSE t

NotSpace(r) == ~IsSpace(r)

\* s[:n]
RECURSIVE TakeChars(_, _)
TakeChars(rs, n) ==
    IF rs = <<>> \/ n <= 0 THEN <<>>
    ELSE IF Head(rs).n <= n THEN <<Head(rs)>> \o TakeChars(Tail(rs), n - Head(rs).n)
    ELSE <<Run(Head(rs).k, n, Head(rs).v)>>

RECURSIVE CharCount(_)
CharCount(rs) == IF rs = <<>> THEN 0 ELSE Head(rs).n + CharCount(Tail(rs))

Digits == <<"0", "1", "2", "3", "4", "5", "6", "7", "8", "9">>
IsDigit(c) == \E d \in 1..10 : Digits[d] = c
DigitValue(c) == (CHOOSE d \in 1..10 : Digits[d] = c) - 1

RECURSIVE DigitsValue(_)
DigitsValue(cs) ==
    IF cs = <<>> THEN 0
    ELSE 10 * DigitsValue(SubSeq(cs, 1, Len(cs) - 1)) + DigitValue(cs[Len(cs)])

RECURSIVE TrimSpaces(_)
TrimSpaces(cs) ==
    IF cs # <<>> /\ Head(cs) = " " THEN TrimSpaces(Tail(cs))
    ELSE IF cs # <<>> /\ cs[Len(cs)] = " " THEN TrimSpaces(SubSeq(cs, 1, Len(cs) - 1))
    ELSE cs

\* int(s) of a str: optional surrounding whitespace, an optional sign, digits.
IntOfStr(s) ==
    LET body == TrimSpaces(s)
        signed == body # <<>> /\ Head(body) \in {"-", "+"}
        digits == IF signed THEN Tail(body) ELSE body
    IN  IF digits # <<>> /\ \A k \in 1..Len(digits) : IsDigit(digits[k])
        THEN [ok |-> TRUE, exc |-> "",
              val |-> PyInt(IF signed /\ Head(body) = "-"
                            THEN 0 - DigitsValue(digits) ELSE DigitsValue(digits))]
        ELSE [ok |-> FALSE, exc |-> "ValueError", val |-> PyNone]

\* int(f) of a float: truncation toward zero.
IntOfFloat(tenths) ==
    IF tenths >= 0 THEN tenths \div 10 ELSE 0 - ((0 - tenths) \div 10)

\* int(sec)
IntOf(v) ==
    CASE v.t = "str" -> IntOfStr(v.s)
      [] v.t = "float" -> [ok |-> TRUE, exc |-> "", val |-> PyInt(IntOfFloat(v.i))]
      [] v.t = "nan" -> [ok |-> FALSE, exc |-> "ValueError", val |-> PyNone]
      [] v.t \in {"int", "bool"} -> [ok |-> TRUE, exc |-> "", val |-> PyInt(v.i)]
      [] OTHER -> [ok |-> FALSE, exc |-> "TypeError", val |-> PyNone]

\* isinstance(v, int): bool is a subclass of int.
IsInstanceInt(v) == v.t \in {"int", "bool"}

RECURSIVE NatToStr(_)
NatToStr(n) ==
    IF n < 10 THEN <<Digits[n + 1]>> ELSE NatToStr(n \div 10) \o <<Digits[(n % 10) + 1]>>

\* str(v) of a value that is neither a str nor a dict.
StrOf(v) ==
    CASE v.t = "none" -> <<"N", "o", "n", "e">>
      [] v.t = "int" -> IF v.i < 0 THEN <<"-">> \o NatToStr(0 - v.i) ELSE NatToStr(v.i)
      [] v.t = "bool" -> IF v.i = 1 THEN <<"T", "r", "u", "e">>
                         ELSE <<"F", "a", "l", "s", "e">>
      [] OTHER -> v.s

\* KeyPointItem(text, start_seconds)
KeyPointItem(t, sec) == [text |-> t, start_seconds |-> sec]

\* A JSON array as the value of key_points or topics: its entries.
Array(items) == [t |-> "array", items |-> items, s |-> <<>>]
\* A value of key_points or topics that is no array: a Python value.
Plain(v) == [t |-> v.t, items |-> <<>>, s |-> v.s]

\* An entry of key_points: a Python value, with its "text" and "start_seconds"
\* members when it is an object.
Entry(v) == [t |-> v.t, i |-> v.i, s |-> v.s, text |-> Missing, sec |-> Missing]
ObjectEntry(text_member, sec_member) ==
    [t |-> "dict", i |-> 0, s |-> <<>>, text |-> text_member, sec |-> sec_member]
Value(e) == [t |-> e.t, i |-> e.i, s |-> e.s]

\* A JSON document: an object with its members, or another JSON value.
Object(title, summary, key_points, topics) ==
    [t |-> "dict", title |-> title, summary |-> summary,
     key_points |-> key_points, topics |-> topics]
NonObject(type) ==
    [t |-> type, title |-> Missing, summary |-> Missing,
     key_points |-> Plain(Missing), topics |-> Plain(Missing)]
NoDoc == NonObject("nodoc")

\* json.loads(text): the document, or the exception it raises.  Whitespace
\* around and between the tokens is allowed; anything else beside the JSON text
\* is JSONDecodeError, but for a text that starts with brackets nested beyond
\* the recursion limit, which is RecursionError.
JsonLoads(t) ==
    LET body == SelectSeq(t, NotSpace)
    IN  IF Len(body) = 1 /\ body[1].k = "json"
        THEN [ok |-> TRUE, exc |-> "", data |-> body[1].v]
        ELSE IF /\ Len(body) = 2
                /\ body[1].k = "jhead" /\ body[2].k = "jtail"
                /\ body[1].v = body[2].v
        THEN [ok |-> TRUE, exc |-> "", data |-> body[1].v]
        ELSE IF body # <<>> /\ body[1].k = "deep"
        THEN [ok |-> FALSE, exc |-> "RecursionError", data |-> NoDoc]
        ELSE [ok |-> FALSE, exc |-> "JSONDecodeError", data |-> NoDoc]

\* The fixed texts of the parser, each written as one word.
FallbackTitle == PyStr(<<"partial_success_title">>)
FallbackKeyPoint == PyStr(<<"parse_failed_key_point">>)
DefaultTitle == PyStr(<<"unknown_title">>)
MODEL_ID == "llama-3.3-70b-versatile"
SummaryLimit == 500

Returned(title, summary, key_points, topics, count) ==
    [outcome |-> "returned", exc |-> "", title |-> title, summary |-> summary,
     key_points |-> key_points, topics |-> topics, chunk_count |-> count,
     model |-> MODEL_ID]
Raised(exc) ==
    [outcome |-> "raised", exc |-> exc, title |-> PyNone, summary |-> PyNone,
     key_points |-> <<>>, topics |-> Array(<<>>), chunk_count |-> 0, model |-> ""]
NoResult ==
    [outcome |-> "none", exc |-> "", title |-> PyNone, summary |-> PyNone,
     key_points |-> <<>>, topics |-> Array(<<>>), chunk_count |-> 0, model |-> ""]

\* The body of the for loop over raw_kps for one entry, with 0 turned into None.
ConvertEntryFalsy(e) ==
    IF e.t = "str" THEN [ok |-> TRUE, exc |-> "", kp |-> KeyPointItem(Value(e), PyNone)]
    ELSE IF e.t = "dict" THEN
        LET text_val == Get(e.text, PyStr(<<>>))
            sec == Get(e.sec, PyNone)
        IN  IF sec.t # "none" /\ ~IsInstanceInt(sec)
            THEN LET c == IntOf(sec)
                 IN  [ok |-> c.ok, exc |-> c.exc, kp |-> KeyPointItem(text_val, c.val)]
            ELSE [ok |-> TRUE, exc |-> "",
                  kp |-> KeyPointItem(text_val,
                                      IF sec.t = "int" /\ sec.i = 0 THEN PyNone ELSE sec)]
    ELSE [ok |-> TRUE, exc |-> "", kp |-> KeyPointItem(PyStr(StrOf(Value(e))), PyNone)]

\* The body of the for loop over raw_kps for one entry: the KeyPointItem it
\* appends, or the exception int(sec) raises.
ConvertEntry(e) ==
    IF e.t = "str" THEN [ok |-> TRUE, exc |-> "", kp |-> KeyPointItem(Value(e), PyNone)]
    ELSE IF e.t = "dict" THEN
        LET text_val == Get(e.text, PyStr(<<>>))
            sec == Get(e.sec, PyNone)
        IN  IF sec.t # "none" /\ ~IsInstanceInt(sec)
            THEN LET c == IntOf(sec)
                 IN  [ok |-> c.ok, exc |-> c.exc, kp |-> KeyPointItem(text_val, c.val)]
            ELSE [ok |-> TRUE, exc |-> "", kp |-> KeyPointItem(text_val, sec)]
    ELSE [ok |-> TRUE, exc |-> "", kp |-> KeyPointItem(PyStr(StrOf(Value(e))), PyNone)]

\* What "for item in raw_kps" iterates over: the entries of an array, the
\* characters of a str; None and a number are not iterable.
Iterate(v) ==
    IF v.t = "array" THEN [ok |-> TRUE, items |-> v.items]
    ELSE IF v.t = "str"
    THEN [ok |-> TRUE, items |-> [k \in 1..Len(v.s) |-> Entry(PyStr(<<v.s[k]>>))]]
    ELSE [ok |-> FALSE, items |-> <<>>]

\* The SummaryResult of the except branch.
Fallback(r, t, count) ==
    Returned(FallbackTitle, PyStr(TakeChars(r, SummaryLimit)),
             <<KeyPointItem(FallbackKeyPoint, PyNone)>>, Array(<<>>), count)

\* _parse_summary_response(raw, chunk_count): the SummaryResult it returns or
\* the exception it raises.
ParseSummaryResponse(r, count) ==
    LET t == StripFence(Strip(r))
        loaded == JsonLoads(t)
        data == loaded.data
    IN  IF loaded.exc = "JSONDecodeError" THEN Fallback(r, t, count)
        ELSE IF ~loaded.ok THEN Raised(loaded.exc)
        ELSE IF data.t # "dict" THEN Raised("AttributeError")
        ELSE LET raw_kps == Iterate(Get(data.key_points, Array(<<>>)))
                 conv == [k \in 1..Len(raw_kps.items) |-> ConvertEntry(raw_kps.items[k])]
                 bad == {k \in 1..Len(conv) : ~conv[k].ok}
             IN  IF ~raw_kps.ok THEN Raised("TypeError")
                 ELSE IF bad # {}
                 THEN Raised(conv[CHOOSE k \in bad : \A j \in bad : k <= j].exc)
                 ELSE Returned(Get(data.title, DefaultTitle),
                               Get(data.summary, PyStr(<<>>)),
                               [k \in 1..Len(conv) |-> conv[k].kp],
                               Get(data.topics, Array(<<>>)),
                               count)

\* One call of _parse_summary_response.
ParseCall ==
    /\ pc = "parse"
    /\ result' = ParseSummaryResponse(raw, chunk_count)
    /\ pc' = IF result'.outcome = "returned" THEN "parsed" ELSE "parse_raised"
    /\ UNCHANGED <<chunk_size, chunk_overlap, transcript, text, start, chunks,
                   spans, infos, idx, calls, inflight, partial_summaries, raw,
                   chunk_count, error>>
    /\ UNCHANGED request_vars

-----------------------------------------------------------------------------
(* The orchestrator: one invocation of summarize_transcript *)

IsWhitespace(c) == c \in {"sp", "nl"}

RECURSIVE LStripText(_)
LStripText(cs) ==
    IF cs # <<>> /\ IsWhitespace(Head(cs)) THEN LStripText(Tail(cs)) ELSE cs

RECURSIVE RStripText(_)
RStripText(cs) ==
    IF cs # <<>> /\ IsWhitespace(cs[Len(cs)])
    THEN RStripText(SubSeq(cs, 1, Len(cs) - 1)) ELSE cs

\* The transcript taken as it is.
StripTextNot(cs) == cs

\* transcript.strip()
StripText(cs) == RStripText(LStripText(cs))

\* A short path taken for two chunks as well.
IsShortUpToTwo(cis) == Len(cis) <= 2

\* len(chunks) == 1
IsShort(cis) == Len(cis) = 1

\* The chunks taken from the last to the first.
ChunkAtReversed(cis, k) == cis[Len(cis) + 1 - k]

\* The k-th chunk the for loop of _summarize_long takes.
ChunkAt(cis, k) == cis[k]

\* The completion calls: what is asked (the prompt's parameters), how the
\* call ended ("pending", "returned" or the exception raised) and the text
\* _call_api returned for it (empty until then).  The partials of a merge call
\* are the labelled partial summaries that "\n\n".join puts into its prompt,
\* in the order of the list.
ShortCall(t) ==
    [kind |-> "short", part_number |-> 0, total_parts |-> 0, body |-> t,
     partials |-> <<>>, outcome |-> "pending", answer |-> <<>>]
ChunkCall(ci) ==
    [kind |-> "chunk", part_number |-> ci.part_number,
     total_parts |-> ci.total_parts, body |-> ci.text, partials |-> <<>>,
     outcome |-> "pending", answer |-> <<>>]
MergeCall(ps) ==
    [kind |-> "merge", part_number |-> 0, total_parts |-> 0, body |-> <<>>,
     partials |-> ps, outcome |-> "pending", answer |-> <<>>]

\* A partial summary labelled with the number of parts.
PartialSummaryByTotal(chunk, result_text) ==
    [label |-> chunk.total_parts, body |-> result_text]

\* f"【パート {chunk.part_number}】\n{result}": the label and the text under it.
PartialSummary(chunk, result_text) ==
    [label |-> chunk.part_number, body |-> result_text]

Issue(c) ==
    /\ calls' = Append(calls, c)
    /\ inflight' = inflight \cup {Len(calls) + 1}

\* The call in flight ends: its outcome is recorded and, with next a call the
\* coroutine issues before it suspends again, that call is in flight.
Resolve(id, outcome, answer, next) ==
    /\ calls' = [calls EXCEPT ![id].outcome = outcome, ![id].answer = answer] \o next
    /\ inflight' = (inflight \ {id}) \cup {Len(calls) + k : k \in 1..Len(next)}

\* A response of the completion service: its message content, or no content.
Response(content, is_none) == [content |-> content, is_none |-> is_none]

\* _call_api: chat_completion.choices[0].message.content or ""
CallApi(resp) == IF resp.is_none THEN <<>> ELSE resp.content

\* What an exception of a completion call leaves: a result made up for it.
FailureOutcomeDegraded(e) ==
    [pc |-> "done", error |-> "", result |-> Fallback(<<>>, <<>>, 1)]

\* What an exception of a completion call leaves: nothing catches it, so the
\* invocation ends with it and returns nothing.
FailureOutcome(e) == [pc |-> "failed", error |-> e, result |-> NoResult]

\* summarize_transcript up to the splitter: trim, reject the empty transcript.
Summarize ==
    /\ pc = "entry"
    /\ LET stripped == StripText(transcript)
       IN  IF stripped = <<>>
           THEN /\ pc' = "rejected"
                /\ error' = "ValueError"
                /\ UNCHANGED text
           ELSE /\ pc' = "split"
                /\ text' = stripped
                /\ UNCHANGED error
    /\ UNCHANGED <<chunk_size, chunk_overlap, transcript, start, chunks, spans,
                   infos, idx, calls, inflight, partial_summaries, raw,
                   chunk_count, result>>
    /\ UNCHANGED request_vars

\* One chunk: _summarize_short up to its await.
IssueShort ==
    /\ pc = "split_done"
    /\ IsShort(infos)
    /\ Issue(ShortCall(text))
    /\ pc' = "await_short"
    /\ UNCHANGED <<chunk_size, chunk_overlap, transcript, text, start, chunks,
                   spans, infos, idx, partial_summaries, raw, chunk_count,
                   result, error>>
    /\ UNCHANGED request_vars

\* Several chunks: _summarize_long up to the await of its first iteration.
IssueFirstChunk ==
    /\ pc = "split_done"
    /\ ~IsShort(infos)
    /\ idx' = 1
    /\ Issue(ChunkCall(ChunkAt(infos, 1)))
    /\ pc' = "await_chunk"
    /\ UNCHANGED <<chunk_size, chunk_overlap, transcript, text, start, chunks,
                   spans, infos, partial_summaries, raw, chunk_count, result,
                   error>>
    /\ UNCHANGED request_vars

\* The parser on the final completion text, and the end of the invocation.
Finish(r, count) ==
    /\ raw' = r
    /\ chunk_count' = count
    /\ result' = ParseSummaryResponse(r, count)
    /\ pc' = IF result'.outcome = "returned" THEN "done" ELSE "raised"
    /\ error' = result'.exc

\* The short call returns: _summarize_short after its await.
ReturnShort(resp) ==
    /\ pc = "await_short"
    /\ \E id \in inflight : Resolve(id, "returned", CallApi(resp), <<>>)
    /\ Finish(CallApi(resp), 1)
    /\ UNCHANGED <<chunk_size, chunk_overlap, transcript, text, start, chunks,
                   spans, infos, idx, partial_summaries>>
    /\ UNCHANGED request_vars

\* A chunk call returns: the labelled partial summary is appended and the loop
\* goes on to the next chunk's call, or after the last chunk to the merge call.
ReturnChunk(resp) ==
    /\ pc = "await_chunk"
    /\ LET chunk == ChunkAt(infos, idx)
           ps == Append(partial_summaries, PartialSummary(chunk, CallApi(resp)))
       IN  /\ partial_summaries' = ps
           /\ IF idx < Len(infos)
              THEN /\ idx' = idx + 1
                   /\ \E id \in inflight :
                         Resolve(id, "returned", CallApi(resp),
                                 <<ChunkCall(ChunkAt(infos, idx + 1))>>)
                   /\ pc' = "await_chunk"
              ELSE /\ idx' = idx
                   /\ \E id \in inflight : Resolve(id, "returned", CallApi(resp),
                                                <<MergeCall(ps)>>)
                   /\ pc' = "await_merge"
    /\ UNCHANGED <<chunk_size, chunk_overlap, transcript, text, start, chunks,
                   spans, infos, raw, chunk_count, result, error>>
    /\ UNCHANGED request_vars

\* The merge call returns: _summarize_long after its last await.
ReturnMerge(resp) ==
    /\ pc = "await_merge"
    /\ \E id \in inflight : Resolve(id, "returned", CallApi(resp), <<>>)
    /\ Finish(CallApi(resp), Len(infos))
    /\ UNCHANGED <<chunk_size, chunk_overlap, transcript, text, start, chunks,
                   spans, infos, idx, partial_summaries>>
    /\ UNCHANGED request_vars

\* The completion call in flight raises e: the exception leaves _call_api,
\* the awaiting method and summarize_transcript.
FailCall(e) ==
    /\ pc \in {"await_short", "await_chunk", "await_merge"}
    /\ \E id \in inflight : Resolve(id, e, <<>>, <<>>)
    /\ LET out == FailureOutcome(e)
       IN  /\ pc' = out.pc
           /\ error' = out.error
           /\ result' = out.result
    /\ UNCHANGED <<chunk_size, chunk_overlap, transcript, text, start, chunks,
                   spans, infos, idx, partial_summaries, raw, chunk_count>>
    /\ UNCHANGED request_vars

-----------------------------------------------------------------------------
(* The parser on its own: every completion text within the bounds *)

MaxKeyPoints == 2
MaxChunkCount == 2

\* The values start_seconds is drawn from.
SecValues ==
    {Missing, PyNone, PyInt(0), PyInt(12), PyInt(0 - 3), PyBool(TRUE),
     PyFloat(127), PyStr(<<"1", "2">>), PyStr(<<"a", "b", "c">>), PyNaN, PyList}

\* The values text is drawn from.
TextValues == {Missing, PyStr(<<"b">>), PyInt(5)}

\* The entries key_points is drawn from: strings, objects, other values.
Entries ==
    {Entry(PyStr(<<"a">>)), Entry(PyInt(5)), Entry(PyNone), Entry(PyList)}
    \cup {ObjectEntry(tv, sv) : tv \in TextValues, sv \in SecValues}

TopicsAB == Array(<<Entry(PyStr(<<"A">>)), Entry(PyStr(<<"B">>))>>)

\* Objects with every key_points array within the bounds.
ArrayDocs ==
    {Object(PyStr(<<"T">>), PyStr(<<"S">>), Array(kps), TopicsAB) :
        kps \in SeqsUpTo(Entries, MaxKeyPoints)}

\* Objects with members missing or of another type, and JSON values that are
\* no object.
OtherDocs ==
    {Object(ti, su, kp, tp) :
        ti \in {Missing, PyStr(<<"T">>)},
        su \in {Missing, PyStr(<<"S">>)},
        kp \in {Plain(Missing), Plain(PyNone), Plain(PyInt(5)),
                Plain(PyStr(<<"p", "q">>)),
                Array(<<Entry(PyStr(<<"a">>)),
                        ObjectEntry(PyStr(<<"b">>), PyStr(<<"1", "2">>))>>)},
        tp \in {Plain(Missing), TopicsAB}}
    \cup {NonObject("array"), NonObject("int"), NonObject("str"), NonObject("none")}

\* Number of characters of the JSON texts and of the junk.
JsonLen == 40
JunkLens == {7, 499, 500, 501, 600}

Sp == Run("sp", 1, NoDoc)
Nl == Run("nl", 1, NoDoc)
Fence(n) == Run("fence", n, NoDoc)
Junk(n) == Run("junk", n, NoDoc)
Deep(n) == Run("deep", n, NoDoc)
Json(d) == Run("json", JsonLen, d)
JHead(d) == Run("jhead", 1, d)
JTail(d) == Run("jtail", JsonLen - 1, d)

\* The ways a model wraps the JSON text of d.
Layouts(d) ==
    { <<Json(d)>>,
      <<Sp, Nl, Json(d), Nl>>,
      <<JHead(d), Nl, Sp, JTail(d)>>,
      <<Fence(7), Nl, Json(d), Nl, Fence(3)>>,
      <<Sp, Fence(3), Nl, JHead(d), Nl, JTail(d), Nl, Sp, Fence(3), Nl>>,
      <<Fence(7), Nl, Json(d)>>,
      <<Fence(3), Sp, Json(d), Nl, Fence(3)>>,
      <<Fence(3), Nl, Json(d), Sp, Fence(3)>>,
      <<Junk(7), Sp, Json(d)>>,
      <<Junk(7), Nl, Fence(7), Nl, Json(d), Nl, Fence(3)>>,
      <<Json(d), Nl, Json(d)>>,
      <<JHead(d)>> }

\* Completion texts that hold no JSON text at all.
JunkRaws ==
    { <<>>, <<Sp, Nl>>, <<Fence(3)>>, <<Fence(3), Nl, Fence(3)>>,
      <<Deep(5000)>>, <<Junk(7), Deep(5000)>> }
    \cup {<<Junk(n)>> : n \in JunkLens}
    \cup {<<Sp, Sp, Nl, Junk(n), Nl>> : n \in JunkLens}
    \cup {<<Fence(7), Nl, Junk(n), Nl, Fence(3)>> : n \in JunkLens}

ParseRaws ==
    {<<Json(d)>> : d \in ArrayDocs}
    \cup UNION {Layouts(d) : d \in OtherDocs}
    \cup JunkRaws

InitParse ==
    /\ raw \in ParseRaws
    /\ chunk_count \in 1..MaxChunkCount
    /\ pc = "parse"
    /\ result = NoResult
    /\ chunk_size = 0
    /\ chunk_overlap = 0
    /\ transcript = <<>>
    /\ text = <<>>
    /\ start = 0
    /\ chunks = <<>>
    /\ spans = <<>>
    /\ infos = <<>>
    /\ idx = 0
    /\ calls = <<>>
    /\ inflight = {}
    /\ partial_summaries = <<>>
    /\ error = ""
    /\ NoRequest

NextParse == ParseCall

SpecParse == InitParse /\ [][NextParse]_vars

-----------------------------------------------------------------------------
(* The splitter on its own: every configuration and text within the bounds *)

MaxChunkSize == 10
MaxTail == 4

SplitAlphabet == {"x", "kuten", "nl", "dot", "sp"}

\* No search zone reaches below chunk_size - chunk_size \div 5 (the first zone
\* starts there and the cursor never goes below 0), so the texts differ only
\* from that position on.
SplitTexts(cs) ==
    {Repeat("x", cs - (cs \div 5)) \o w : w \in SeqsUpTo(SplitAlphabet, MaxTail)}

InitSplit ==
    /\ chunk_size \in 1..MaxChunkSize
    /\ chunk_overlap \in 0..(chunk_size - 1)
    /\ text \in SplitTexts(chunk_size)
    /\ transcript = text
    /\ start = 0
    /\ chunks = <<>>
    /\ spans = <<>>
    /\ infos = <<>>
    /\ pc = "split"
    /\ idx = 0
    /\ calls = <<>>
    /\ inflight = {}
    /\ partial_summaries = <<>>
    /\ raw = <<>>
    /\ chunk_count = 0
    /\ result = NoResult
    /\ error = ""
    /\ NoRequest

NextSplit == SplitWhole \/ SplitStep \/ SplitFinish

SpecSplit == InitSplit /\ [][NextSplit]_vars

(* The splitter on windows whose search zone holds every kind of delimiter *)

BoundaryChunkSize == 15
NoZoneChunkSize == 4
MaxBoundaryTail == 5

BoundaryAlphabet == {"x", "kuten", "touten", "nl", "dot", "sp"}

\* As for SplitTexts, the texts differ only where a search zone can reach.
BoundaryTexts(cs) ==
    {Repeat("x", cs - (cs \div 5)) \o w :
        w \in SeqsUpTo(BoundaryAlphabet, MaxBoundaryTail)}

\* The overlaps: none, and the largest one under which the cursor advances.
InitBoundary ==
    /\ chunk_size \in {NoZoneChunkSize, BoundaryChunkSize}
    /\ chunk_overlap \in {0, chunk_size - Max(1, chunk_size \div 5)}
    /\ text \in BoundaryTexts(chunk_size)
    /\ transcript = text
    /\ start = 0
    /\ chunks = <<>>
    /\ spans = <<>>
    /\ infos = <<>>
    /\ pc = "split"
    /\ idx = 0
    /\ calls = <<>>
    /\ inflight = {}
    /\ partial_summaries = <<>>
    /\ raw = <<>>
    /\ chunk_count = 0
    /\ result = NoResult
    /\ error = ""
    /\ NoRequest

NextBoundary == SplitWhole \/ SplitStep \/ SplitFinish

SpecBoundary == InitBoundary /\ [][NextBoundary]_vars

-----------------------------------------------------------------------------
(* The invocation as a whole: every transcript, configuration and behaviour of
   the completion service within the bounds *)

MaxPipeChunkSize == 3
MaxTranscript == 5
MaxPipeTail == 3

PipeAlphabet == {"x", "sp"}

\* Every transcript within the bounds for the small chunk sizes (no search
\* zone below chunk_size 5, a zone of one character below 10); for the chunk
\* size MaxChunkSize, whose zone holds two characters, the transcripts that
\* differ from the first zone on, so that cuts at a delimiter and the loop
\* that does not advance occur.
PipeTranscripts(cs) ==
    IF cs <= MaxPipeChunkSize
    THEN SeqsUpTo(PipeAlphabet, MaxTranscript)
    ELSE {Repeat("x", cs - (cs \div 5)) \o w :
             w \in SeqsUpTo(PipeAlphabet \cup {"kuten"}, MaxPipeTail)}

\* The object of a well-formed answer whose first key point starts at second 0.
DocZero ==
    Object(PyStr(<<"T">>), PyStr(<<"S">>),
           Array(<<ObjectEntry(PyStr(<<"b">>), PyInt(0)),
                   ObjectEntry(PyStr(<<"c">>), PyStr(<<"1", "2">>))>>),
           TopicsAB)

\* What the service answers to a chunk prompt: bullet text, text that is a
\* JSON document, or no content.
ChunkResponses ==
    {Response(<<Junk(30)>>, FALSE), Response(<<Json(DocZero)>>, FALSE),
     Response(<<>>, TRUE)}

\* What the service answers to a short or merge prompt.
FinalResponses ==
    {Response(<<Json(DocZero)>>, FALSE),
     Response(<<Fence(7), Nl, JHead(DocZero), Nl, JTail(DocZero), Nl, Fence(3)>>, FALSE),
     Response(<<Junk(600)>>, FALSE),
     Response(<<Json(NonObject("array"))>>, FALSE),
     Response(<<>>, TRUE)}

\* The exceptions of the completion client.
CompletionErrors == {"APIConnectionError", "RateLimitError"}

Init ==
    /\ chunk_size \in (1..MaxPipeChunkSize) \cup {MaxChunkSize}
    /\ chunk_overlap \in 0..(chunk_size - 1)
    /\ transcript \in PipeTranscripts(chunk_size)
    /\ text = <<>>
    /\ start = 0
    /\ chunks = <<>>
    /\ spans = <<>>
    /\ infos = <<>>
    /\ pc = "entry"
    /\ idx = 0
    /\ calls = <<>>
    /\ inflight = {}
    /\ partial_summaries = <<>>
    /\ raw = <<>>
    /\ chunk_count = 0
    /\ result = NoResult
    /\ error = ""
    /\ NoRequest

Next ==
    \/ Summarize
    \/ SplitWhole
    \/ SplitStep
    \/ SplitFinish
    \/ IssueShort
    \/ IssueFirstChunk
    \/ \E resp \in FinalResponses : ReturnShort(resp)
    \/ \E resp \in ChunkResponses : ReturnChunk(resp)
    \/ \E resp \in FinalResponses : ReturnMerge(resp)
    \/ \E e \in CompletionErrors : FailCall(e)

Spec == Init /\ [][Next]_vars

-----------------------------------------------------------------------------
(* The endpoint POST /api/summarize: summarize_video of routers/summarize.py, *)
(* fetch_transcript of services/youtube.py and the exception handler of     *)
(* main.py.  A request reaches summarize_video only with a URL that the     *)
(* request schema accepted, and every such URL has a video id, so           *)
(* extract_video_id returns.  The transcript library is outside the         *)
(* repository: each of its calls returns or raises.                         *)

\* The variables of the service that the endpoint's own steps leave alone.
service_vars == <<chunk_size, chunk_overlap, text, start, chunks, spans, infos,
                  idx, calls, inflight, partial_summaries, raw, chunk_count,
                  result, error>>

\* A lookup on the transcript list: the method called, the language code
\* given, whether translate(language) was called on what it returned, and
\* whether the lookup ended with a transcript.
Lookup(method, code, translated, ok) ==
    [method |-> method, code |-> code, translated |-> translated, ok |-> ok]

\* Every YouTubeTranscriptError answered with 400.
StatusCodeAlways400(error_code) == 400

\* youtube_transcript_error_handler: status_code
StatusCode(error_code) == IF error_code = "NO_TRANSCRIPT" THEN 404 ELSE 400

\* fetch_transcript raises YouTubeTranscriptError(error_code): summarize_video
\* does not catch it and youtube_transcript_error_handler answers.
RaiseTranscriptError(error_code) ==
    /\ response' = [status |-> StatusCode(error_code), error_code |-> error_code]
    /\ pc' = "responded"

\* ytt_api.list(video_id)
ListTranscripts(ok) ==
    /\ pc = "request"
    /\ IF ok THEN pc' = "find_transcript" /\ UNCHANGED response
             ELSE RaiseTranscriptError("FETCH_FAILED")
    /\ UNCHANGED <<language, lookups, yt_transcript, segments, video_title,
                   transcript>>
    /\ UNCHANGED service_vars

\* transcript_list.find_transcript([language])
FindTranscript(ok) ==
    /\ pc = "find_transcript"
    /\ lookups' = Append(lookups, Lookup("find_transcript", language, FALSE, ok))
    /\ IF ok THEN /\ yt_transcript' = [source |-> "find_transcript",
                                       language |-> language]
                  /\ pc' = "fetch"
             ELSE /\ pc' = "find_generated_transcript"
                  /\ UNCHANGED yt_transcript
    /\ UNCHANGED <<language, segments, video_title, response, transcript>>
    /\ UNCHANGED service_vars

\* transcript_list.find_generated_transcript([language])
FindGeneratedTranscript(ok) ==
    /\ pc = "find_generated_transcript"
    /\ lookups' = Append(lookups,
                         Lookup("find_generated_transcript", language, FALSE, ok))
    /\ IF ok THEN /\ yt_transcript' = [source |-> "find_generated_transcript",
                                       language |-> language]
                  /\ pc' = "fetch"
             ELSE /\ pc' = "find_english"
                  /\ UNCHANGED yt_transcript
    /\ UNCHANGED <<language, segments, video_title, response, transcript>>
    /\ UNCHANGED service_vars

\* transcript_list.find_transcript(["en"]) and, when language is not "en",
\* transcript.translate(language); an exception of either is NO_TRANSCRIPT.
FindEnglishTranscript(ok, translate_ok) ==
    /\ pc = "find_english"
    /\ LET translated == ok /\ language # "en"
           got == ok /\ (translated => translate_ok)
       IN  /\ lookups' = Append(lookups,
                                Lookup("find_transcript", "en", translated, got))
           /\ IF got
              THEN /\ yt_transcript' =
                          [source |-> IF translated THEN "translate"
                                      ELSE "find_transcript",
                           language |-> IF translated THEN language ELSE "en"]
                   /\ pc' = "fetch"
                   /\ UNCHANGED response
              ELSE /\ RaiseTranscriptError("NO_TRANSCRIPT")
                   /\ UNCHANGED yt_transcript
    /\ UNCHANGED <<language, segments, video_title, transcript>>
    /\ UNCHANGED service_vars

\* transcript.fetch(), the conversion to segments and the formatter: any
\* exception of them is FETCH_FAILED.
FetchTranscriptData(ok, segs) ==
    /\ pc = "fetch"
    /\ IF ok THEN /\ segments' = segs
                  /\ pc' = "title"
                  /\ UNCHANGED response
             ELSE /\ RaiseTranscriptError("FETCH_FAILED")
                  /\ UNCHANGED segments
    /\ UNCHANGED <<language, lookups, yt_transcript, video_title, transcript>>
    /\ UNCHANGED service_vars

\* f"[{int(seg.start)}] {seg.text}"; seg.start is in tenths of a second.
TimestampedLine(seg) ==
    <<"[">> \o NatToStr(IntOfFloat(seg.start)) \o <<"]", "sp">> \o seg.text

\* "\n".join(... for seg in transcript.segments)
TimestampedText(segs) ==
    IF segs = <<>> THEN <<>>
    ELSE TimestampedLine(segs[1])
         \o Concat([k \in 1..(Len(segs) - 1) |->
                        <<"nl">> \o TimestampedLine(segs[k + 1])])

\* fetch_video_title (the title, or the empty string when the lookup failed)
\* and summarize_video up to its call of summarize_transcript.
FetchVideoTitle(title) ==
    /\ pc = "title"
    /\ video_title' = title
    /\ transcript' = TimestampedText(segments)
    /\ pc' = "entry"
    /\ UNCHANGED <<language, lookups, yt_transcript, segments, response>>
    /\ UNCHANGED service_vars

\* summarize_transcript returned: summarize_video builds the response.  (The
\* validation of the response model is not part of this model.)
RespondSummary ==
    /\ pc = "done"
    /\ response' = [status |-> 200, error_code |-> ""]
    /\ pc' = "responded"
    /\ UNCHANGED <<language, lookups, yt_transcript, segments, video_title,
                   transcript>>
    /\ UNCHANGED service_vars

\* summarize_transcript raised: except Exception of summarize_video.
RespondFailed ==
    /\ pc \in {"rejected", "raised", "failed"}
    /\ response' = [status |-> 500, error_code |-> "SUMMARIZE_FAILED"]
    /\ pc' = "responded"
    /\ UNCHANGED <<language, lookups, yt_transcript, segments, video_title,
                   transcript>>
    /\ UNCHANGED service_vars

(* The requests the endpoint is run on *)

RequestChunkSize == 10
MaxRequestOverlap == 1

Languages == {"ja", "en"}

Segment(t, tenths) == [text |-> t, start |-> tenths, duration |-> 25]

\* No segment; one line; two and three lines, longer than a chunk.
SegmentLists ==
    { <<>>,
      <<Segment(<<"x">>, 0)>>,
      <<Segment(<<"x">>, 0), Segment(<<"x", "kuten">>, 25)>>,
      <<Segment(<<"x">>, 0), Segment(<<"x">>, 25), Segment(<<"x", "x">>, 127)>> }

VideoTitles == {<<>>, <<"t">>}

InitRequest ==
    /\ language \in Languages
    /\ chunk_size = RequestChunkSize
    /\ chunk_overlap \in 0..MaxRequestOverlap
    /\ pc = "request"
    /\ lookups = <<>>
    /\ yt_transcript = NoTranscript
    /\ segments = <<>>
    /\ video_title = <<>>
    /\ response = NoResponse
    /\ transcript = <<>>
    /\ text = <<>>
    /\ start = 0
    /\ chunks = <<>>
    /\ spans = <<>>
    /\ infos = <<>>
    /\ idx = 0
    /\ calls = <<>>
    /\ inflight = {}
    /\ partial_summaries = <<>>
    /\ raw = <<>>
    /\ chunk_count = 0
    /\ result = NoResult
    /\ error = ""

NextRequest ==
    \/ \E ok \in BOOLEAN : ListTranscripts(ok)
    \/ \E ok \in BOOLEAN : FindTranscript(ok)
    \/ \E ok \in BOOLEAN : FindGeneratedTranscript(ok)
    \/ \E ok \in BOOLEAN, translate_ok \in BOOLEAN :
          FindEnglishTranscript(ok, translate_ok)
    \/ \E ok \in BOOLEAN, segs \in SegmentLists : FetchTranscriptData(ok, segs)
    \/ \E title \in VideoTitles : FetchVideoTitle(title)
    \/ Summarize
    \/ SplitWhole
    \/ SplitStep
    \/ SplitFinish
    \/ IssueShort
    \/ IssueFirstChunk
    \/ \E resp \in FinalResponses : ReturnShort(resp)
    \/ \E resp \in ChunkResponses : ReturnChunk(resp)
    \/ \E resp \in FinalResponses : ReturnMerge(resp)
    \/ \E e \in CompletionErrors : FailCall(e)
    \/ RespondSummary
    \/ RespondFailed

SpecRequest == InitRequest /\ [][NextRequest]_vars

-----------------------------------------------------------------------------
(* Claims about the splitter, checked under SpecSplit *)

SplitReturned == pc = "split_done"

\* The length of the overlap prefix of chunk i (i > 1): min(chunk_overlap, end
\* of the previous chunk).
OverlapPrefix(i) == Min(chunk_overlap, spans[i - 1][2])

\* The chunks with the overlap prefix of every chunk after the first removed.
StrippedChunks ==
    [i \in 1..Len(infos) |->
        IF i = 1 THEN infos[i].text ELSE SliceFrom(infos[i].text, OverlapPrefix(i))]

\* C2: for a text longer than chunk_size the returned chunks are contiguous
\* substrings of the text, the first starting at offset 0 and the last ending
\* at len(text); each chunk after the first starts min(chunk_overlap, end of
\* the previous chunk) characters before the end of the previous chunk; and
\* the chunks with those overlap prefixes removed concatenate to the text.
C2_SplitCoverage ==
    (SplitReturned /\ Len(text) > chunk_size) =>
        /\ Len(infos) = Len(spans)
        /\ \A i \in 1..Len(infos) :
              /\ 0 <= spans[i][1] /\ spans[i][1] <= spans[i][2]
              /\ spans[i][2] <= Len(text)
              /\ infos[i].text = SubSeq(text, spans[i][1] + 1, spans[i][2])
        /\ spans[1][1] = 0
        /\ spans[Len(spans)][2] = Len(text)
        /\ \A i \in 2..Len(infos) :
              /\ spans[i][1] = spans[i - 1][2] - OverlapPrefix(i)
              /\ OverlapPrefix(i) <= Len(infos[i].text)
        /\ Concat(StrippedChunks) = text

\* A returned split of three or more chunks with a real overlap and a first cut
\* at a delimiter, before the hard cut.
C2_Witness ==
    /\ SplitReturned
    /\ Len(text) > chunk_size
    /\ Len(infos) >= 3
    /\ chunk_overlap >= 1
    /\ spans[1][2] < chunk_size

\* C3: in every iteration of the while loop that carves a chunk and goes on,
\* the cursor strictly increases.
C3_CursorAdvances ==
    [][(pc = "split" /\ pc' = "split" /\ chunks' # chunks) => start' > start]_vars

\* C8: every chunk other than the final one has length <= chunk_size, in the
\* list being built and in the list returned.
C8_NonFinalChunkBounded ==
    /\ pc = "split" => \A i \in 1..Len(chunks) : Len(chunks[i]) <= chunk_size
    /\ SplitReturned =>
          \A i \in 1..(Len(infos) - 1) : Len(infos[i].text) <= chunk_size

\* A returned split with a non-final chunk of exactly chunk_size characters (a
\* hard cut) after a shorter one (a cut at a delimiter).
C8_Witness ==
    /\ SplitReturned
    /\ \E i, j \in 1..(Len(infos) - 1) :
          /\ i < j
          /\ Len(infos[i].text) < chunk_size
          /\ Len(infos[j].text) = chunk_size

-----------------------------------------------------------------------------
(* Claims about the invocation, checked under Spec *)

\* The invocation ended with every completion call it made answered.
AllCallsAnswered == pc \in {"done", "raised"}

C5_FailurePropagates ==
    \A i \in 1..Len(calls) :
        calls[i].outcome \in CompletionErrors =>
            /\ i = Len(calls)
            /\ inflight = {}
            /\ pc = "failed"
            /\ error = calls[i].outcome
            /\ result.outcome = "none"
            /\ raw = <<>> /\ chunk_count = 0

\* The call of a chunk after the first has failed.
C5_Witness ==
    /\ pc = "failed"
    /\ \E i \in 1..Len(calls) :
          /\ calls[i].kind = "chunk"
          /\ calls[i].part_number >= 2
          /\ calls[i].outcome \in CompletionErrors

IsBlank(t) == \A i \in 1..Len(t) : t[i] \in {"sp", "nl"}

\* C6: a transcript that is empty after trimming is rejected with the
\* empty-input error; the splitter has not run and no completion call is made.
C6_EmptyRejected ==
    (IsBlank(transcript) /\ pc # "entry") =>
        /\ pc = "rejected"
        /\ error = "ValueError"
        /\ calls = <<>> /\ inflight = {}
        /\ chunks = <<>> /\ infos = <<>>
        /\ result.outcome = "none"

\* A transcript of whitespace alone has been rejected.
C6_Witness ==
    /\ pc = "rejected"
    /\ Len(transcript) >= 2

\* C7: at most one completion call is in flight, and it is the last one issued;
\* every call before the last one has returned; the chunk calls are issued in
\* ascending part_number order (the i-th call is the one of chunk i), and the
\* merge call comes after the calls of all N chunks.
C7_Sequential ==
    /\ Cardinality(inflight) <= 1
    /\ inflight \subseteq {Len(calls)}
    /\ \A i \in 1..Len(calls) :
          /\ calls[i].outcome = "pending" <=> i \in inflight
          /\ i < Len(calls) => calls[i].outcome = "returned"
          /\ calls[i].kind = "chunk" =>
                /\ i <= Len(infos)
                /\ calls[i].part_number = i
                /\ calls[i].body = infos[i].text
          /\ calls[i].kind = "merge" => i = Len(infos) + 1

\* The merge call of an invocation over three or more chunks is in flight.
C7_Witness ==
    /\ pc = "await_merge"
    /\ Len(infos) >= 3
    /\ inflight = {Len(infos) + 1}

-----------------------------------------------------------------------------
(* Claims about the parser, checked under SpecParse *)

ParserEnded == pc \in {"parsed", "parse_raised"}

\* C1: for every completion text and chunk_count >= 1 the parser returns a
\* SummaryResult and raises nothing.
C1_ParserNeverRaises ==
    ParserEnded => result.outcome = "returned"

\* The text of the parser after trimming and fence stripping is no JSON text.
NotJson == ~JsonLoads(StripFence(Strip(raw))).ok

\* C9: for a text that cannot be parsed as JSON the parser returns the degraded
\* result: one key point without start_seconds, no topics, the first 500
\* characters of the raw text as summary, the fixed title, the chunk_count given.
C9_DegradedOnNonJson ==
    (ParserEnded /\ NotJson) =>
        /\ result.outcome = "returned"
        /\ Len(result.key_points) = 1
        /\ result.key_points[1].start_seconds = PyNone
        /\ result.topics = Array(<<>>)
        /\ result.summary = PyStr(TakeChars(raw, 500))
        /\ CharCount(result.summary.s) = Min(500, CharCount(raw))
        /\ result.title = FallbackTitle
        /\ result.chunk_count = chunk_count

\* The document the parser decoded.
Decoded == JsonLoads(StripFence(Strip(raw))).data

\* What C10 says an entry of key_points becomes.
ExpectedKeyPoint(e) ==
    IF e.t = "str" THEN KeyPointItem(PyStr(e.s), PyNone)
    ELSE IF e.t = "dict"
    THEN KeyPointItem(IF e.text.t = "missing" THEN PyStr(<<>>) ELSE e.text,
                      IF e.sec.t \in {"missing", "none"} THEN PyNone
                      ELSE IF e.sec.t \in {"int", "bool"} THEN e.sec
                      ELSE IntOf(e.sec).val)
    ELSE KeyPointItem(PyStr(StrOf(Value(e))), PyNone)

\* C10: when the output parses as a JSON object with a key_points array and
\* the parser returns, the result's key_points has the length and order of the
\* array and each entry is mapped by its shape: a string s to {s, null}; an
\* object to its text (the empty string when it has none) and its
\* start_seconds, converted to an integer when it is present and no integer,
\* null when absent or null; another value to {its string form, null}.  An
\* integer start_seconds of 0 stays 0; "12" becomes 12 and 12.7 becomes 12.
C10_KeyPointMapping ==
    (pc = "parsed" /\ ~NotJson /\ Decoded.key_points.t = "array") =>
        LET entries == Decoded.key_points.items
            kps == result.key_points
        IN  /\ Len(kps) = Len(entries)
            /\ \A k \in 1..Len(entries) :
                  /\ kps[k] = ExpectedKeyPoint(entries[k])
                  /\ kps[k].start_seconds.t \in {"none", "int", "bool"}
                  /\ entries[k].sec = PyInt(0) => kps[k].start_seconds = PyInt(0)
                  /\ entries[k].sec = PyStr(<<"1", "2">>) =>
                        kps[k].start_seconds = PyInt(12)
                  /\ entries[k].sec = PyFloat(127) => kps[k].start_seconds = PyInt(12)
                  /\ entries[k] = Entry(PyInt(5)) => kps[k].text = PyStr(<<"5">>)
                  /\ entries[k] = Entry(PyNone) =>
                        kps[k].text = PyStr(<<"N", "o", "n", "e">>)

\* The parser has returned for an array of a bare string and an object whose
\* start_seconds is the integer 0.
C10_Witness ==
    /\ pc = "parsed"
    /\ ~NotJson
    /\ Decoded.key_points.t = "array"
    /\ Len(result.key_points) = 2
    /\ Decoded.key_points.items[1] = Entry(PyStr(<<"a">>))
    /\ Decoded.key_points.items[2].sec = PyInt(0)
    /\ result.key_points[2].start_seconds = PyInt(0)

-----------------------------------------------------------------------------
(* Claims about the key points of a result *)

\* C11: on the map-reduce path (more than one chunk) every key point of the
\* SummaryResult returned by summarize_transcript has start_seconds null,
\* whatever text the merge call returned.  Checked under Spec.
C11_MergeStartSecondsNull ==
    (pc = "done" /\ Len(infos) > 1) =>
        \A k \in 1..Len(result.key_points) :
            result.key_points[k].start_seconds = PyNone

\* C12: every key point of every SummaryResult the parser returns has a
\* non-empty string as text and a start_seconds that is null or an integer
\* that is not negative.  Checked under SpecParse.
C12_KeyPointWellFormed ==
    pc = "parsed" =>
        \A k \in 1..Len(result.key_points) :
            LET kp == result.key_points[k]
            IN  /\ kp.text.t = "str"
                /\ kp.text.s # <<>>
                /\ \/ kp.start_seconds = PyNone
                   \/ /\ kp.start_seconds.t = "int"
                      /\ kp.start_seconds.i >= 0

-----------------------------------------------------------------------------
(* Claims about the endpoint, checked under SpecRequest *)

\* The k-th lookup of the fallback chain: the method and the language code.
ExpectedLookup(k) ==
    CASE k = 1 -> [method |-> "find_transcript", code |-> language]
      [] k = 2 -> [method |-> "find_generated_transcript", code |-> language]
      [] OTHER -> [method |-> "find_transcript", code |-> "en"]

\* C13: the transcript lookup of POST /api/summarize asks for the transcript
\* in the requested language first, for the auto-generated one second and for
\* the English one third (translated to the requested language when that is
\* not en), each only after the one before it failed; when all three have
\* failed the request has ended with HTTP 404 and error_code NO_TRANSCRIPT and
\* no completion call was issued for it.
C13_TranscriptFallback ==
    /\ Len(lookups) <= 3
    /\ \A k \in 1..Len(lookups) :
          /\ lookups[k].method = ExpectedLookup(k).method
          /\ lookups[k].code = ExpectedLookup(k).code
          /\ k > 1 => ~lookups[k - 1].ok
          /\ lookups[k].translated => (k = 3 /\ language # "en")
          /\ (k = 3 /\ lookups[k].ok) => (lookups[k].translated <=> language # "en")
    /\ (Len(lookups) = 3 /\ ~lookups[3].ok) =>
          /\ pc = "responded"
          /\ response = [status |-> 404, error_code |-> "NO_TRANSCRIPT"]
          /\ calls = <<>>

\* A request for ja whose three lookups all failed has been answered.
C13_Witness ==
    /\ language = "ja"
    /\ Len(lookups) = 3
    /\ \A k \in 1..3 : ~lookups[k].ok
    /\ pc = "responded"
    /\ response.status = 404

-----------------------------------------------------------------------------
(* Claims about the split position, checked under SpecBoundary *)

\* The window that starts at s is not the final one.
NonFinal(s) == s + chunk_size < Len(text)

\* The positions of the last chunk_size \div 5 characters of the window at s.
ZoneOf(s) == (s + chunk_size - (chunk_size \div 5))..(s + chunk_size - 1)

\* The delimiter d occurs at position p, inside the zone of the window at s.
OccursAt(d, p, s) ==
    /\ p \in ZoneOf(s)
    /\ p + Len(d) - 1 \in ZoneOf(s)
    /\ SubSeq(text, p + 1, p + Len(d)) = d

Present(d, s) == \E p \in ZoneOf(s) : OccursAt(d, p, s)

\* The position just after the rightmost occurrence of d in the zone.
AfterRightmost(d, s) ==
    LET p == CHOOSE q \in ZoneOf(s) :
                 /\ OccursAt(d, q, s)
                 /\ \A r \in ZoneOf(s) : OccursAt(d, r, s) => r <= q
    IN  p + Len(d)

\* The boundary C14 gives the window at s.
ExpectedCut(s) ==
    IF Present(<<"kuten">>, s) THEN AfterRightmost(<<"kuten">>, s)
    ELSE IF Present(<<"nl", "nl">>, s) THEN AfterRightmost(<<"nl", "nl">>, s)
    ELSE IF Present(<<"nl">>, s) THEN AfterRightmost(<<"nl">>, s)
    ELSE IF Present(<<"touten">>, s) THEN AfterRightmost(<<"touten">>, s)
    ELSE IF Present(<<"dot">>, s) THEN AfterRightmost(<<"dot">>, s)
    ELSE IF Present(<<"sp">>, s) THEN AfterRightmost(<<"sp">>, s)
    ELSE s + chunk_size

\* C14: for every non-final window [start, start + chunk_size) the split
\* position is the position just after the rightmost occurrence, among the last
\* chunk_size \div 5 characters of the window, of the first delimiter present
\* there in the order full-width period, blank line, newline, full-width comma,
\* period, space.  A full-width period in the zone decides the boundary even
\* when another delimiter lies further right, and the cut is at the end of the
\* window with a plain character before it only when the zone holds no
\* delimiter.
C14_SplitBoundary ==
    \A k \in 1..Len(spans) :
        LET s == spans[k][1]
            cut == spans[k][2]
        IN  NonFinal(s) =>
                /\ cut = ExpectedCut(s)
                /\ cut - 1 \in ZoneOf(s) \/ cut = s + chunk_size
                /\ Present(<<"kuten">>, s) =>
                      /\ text[cut] = "kuten"
                      /\ \A p \in ZoneOf(s) : p >= cut => text[p + 1] # "kuten"
                /\ (cut = s + chunk_size /\ text[cut] = "x") =>
                      \A p \in ZoneOf(s) : text[p + 1] = "x"
                /\ (\A p \in ZoneOf(s) : text[p + 1] = "x") => cut = s + chunk_size

\* A window with a search zone of three characters was cut after a full-width
\* period that a newline or a space follows inside the zone.
C14_Witness ==
    \E k \in 1..Len(spans) :
        LET s == spans[k][1]
            cut == spans[k][2]
        IN  /\ NonFinal(s)
            /\ chunk_size \div 5 >= 3
            /\ text[cut] = "kuten"
            /\ cut < s + chunk_size
            /\ \E p \in ZoneOf(s) : p >= cut /\ text[p + 1] \in {"nl", "sp"}

-----------------------------------------------------------------------------
(* Claims about the merge prompt, checked under Spec *)

\* C15: on the map-reduce path with N chunks the merge prompt is given exactly
\* N labelled partial summaries in ascending part_number order; the k-th one
\* carries the label k and the text that the completion call for chunk k
\* returned, as it was returned (not parsed); none is dropped, duplicated,
\* reordered or paired with the label of another chunk.  The list the loop
\* builds has that form from its first entry on.
C15_MergeInput ==
    /\ \A k \in 1..Len(partial_summaries) :
          /\ k <= Len(infos)
          /\ partial_summaries[k].label = k
          /\ calls[k].kind = "chunk"
          /\ calls[k].body = infos[k].text
          /\ calls[k].outcome = "returned"
          /\ partial_summaries[k].body = calls[k].answer
    /\ \A i \in 1..Len(calls) :
          calls[i].kind = "merge" =>
              /\ Len(infos) > 1
              /\ Len(calls[i].partials) = Len(infos)
              /\ calls[i].partials = partial_summaries
              /\ \A k \in 1..Len(infos) :
                    /\ calls[i].partials[k].label = infos[k].part_number
                    /\ calls[i].partials[k].body = calls[k].answer

\* A merge call was issued for three chunks whose calls returned a JSON
\* document, no content and bullet text.
C15_Witness ==
    /\ Len(infos) = 3
    /\ Len(calls) = 4
    /\ calls[4].kind = "merge"
    /\ calls[1].answer = <<Json(DocZero)>>
    /\ calls[2].answer = <<>>
    /\ calls[3].answer = <<Junk(30)>>
    /\ calls[4].partials[1].body = <<Json(DocZero)>>

====
